---- MODULE Spec2Model ----
(***************************************************************************)
(* A model of parso/parser.py: the token generator proxy with its          *)
(* release ranges, the pushdown parse engine (BaseParser.parse,            *)
(* _add_token, _pop) and the soft-keyword lookahead of get_possible_plan.  *)
(*                                                                         *)
(* Spec       runs BaseParser.parse on a grammar table set and a token     *)
(*            sequence drawn in Init; every step of the engine is one      *)
(*            action, get_possible_plan's activations are kept on an       *)
(*            explicit call stack (plan_calls).                            *)
(* SpecProxy  drives a _TokenGeneratorProxy on its own with release,       *)
(*            can_advance, eat, scope exit and __next__ calls.             *)
(***************************************************************************)
EXTENDS Integers, Sequences, FiniteSets, TLC

\* ---------------------------------------------------------------- bounds

\* Longest token sequence handed to parse.
MaxLen == 5

\* SpecProxy: most release ranges a run opens, and the largest eat point.
MaxRanges == 3
MaxPoint == 2

\* ------------------------------------------------------------ small helpers

\* The `None` that release() stores as a range's end until the scope exits.
None == -1

Last(s) == s[Len(s)]

Front(s) == SubSeq(s, 1, Len(s) - 1)

Reverse(s) == [i \in 1..Len(s) |-> s[Len(s) + 1 - i]]

\* ------------------------------------------------------------------ tokens

\* Token types; contains_syntax is the attribute _token_to_transition reads.
contains_syntax(type_) == type_ = "NAME"

\* The texts a token may carry: an ordinary name, the soft keyword, the hard
\* keyword.
TokenStrings == {"a", "k", "h"}

\* The token the tokenizer yields at index i (1-based) for text s.
Token(s, i) ==
    [type |-> "NAME", string |-> s, start_pos |-> i,
     prefix |-> IF i = 1 THEN "" ELSE " "]

\* `token` before the for loop of parse has bound it.
Unbound == [type |-> "", string |-> "", start_pos |-> 0, prefix |-> ""]

RECURSIVE KindSeqs(_)
KindSeqs(n) ==
    IF n = 0 THEN {<<>>}
    ELSE LET shorter == KindSeqs(n - 1)
         IN shorter \cup {Append(s, k) : s \in {t \in shorter : Len(t) = n - 1},
                                          k \in TokenStrings}

\* The token sequences parse is run on.
TokenSequences ==
    {[i \in 1..Len(ks) |-> Token(ks[i], i)] : ks \in KindSeqs(MaxLen)}

\* ---------------------------------------------------------- grammar tables

\* Transition keys: a token type, or a ReservedString object.
TT(type_) == <<"TokenType", type_>>

RS(value) == <<"ReservedString", value>>

\* DFAPlan(next_dfa, dfa_pushes) stored under a key of DFAState.transitions.
T(key, next_dfa, dfa_pushes) ==
    [key |-> key, next_dfa |-> next_dfa, dfa_pushes |-> dfa_pushes]

\* DFAState: from_rule, is_final and the ordered transitions table.
D(from_rule, is_final, transitions) ==
    [from_rule |-> from_rule, is_final |-> is_final, transitions |-> transitions]

\* grammar.reserved_syntax_strings: 'k' is a soft keyword, 'h' a hard one.
ReservedStrings == [k |-> [soft |-> TRUE], h |-> [soft |-> FALSE]]

\* file_input: (k_stmt | expr_stmt)*   k_stmt: 'k' NAME
\* expr_stmt: NAME ['h' NAME]          one lookahead token decides 'k'.
GrammarDecide ==
    [reserved_syntax_strings |-> ReservedStrings,
     dfas |-> <<
       D("file_input", FALSE, <<T(RS("k"), 2, <<3>>), T(TT("NAME"), 2, <<5>>)>>),
       D("file_input", TRUE,  <<T(RS("k"), 2, <<3>>), T(TT("NAME"), 2, <<5>>)>>),
       D("k_stmt",     FALSE, <<T(TT("NAME"), 4, <<>>)>>),
       D("k_stmt",     TRUE,  <<>>),
       D("expr_stmt",  TRUE,  <<T(RS("h"), 6, <<>>)>>),
       D("expr_stmt",  FALSE, <<T(TT("NAME"), 7, <<>>)>>),
       D("expr_stmt",  TRUE,  <<>>) >>]

\* file_input: (expr_stmt | k_stmt)*   k_stmt: 'k' NAME   expr_stmt: NAME [NAME]
\* The tables list the NAME key before the 'k' key, and both statements accept
\* a NAME after the first token.
GrammarTie ==
    [reserved_syntax_strings |-> ReservedStrings,
     dfas |-> <<
       D("file_input", FALSE, <<T(TT("NAME"), 2, <<5>>), T(RS("k"), 2, <<3>>)>>),
       D("file_input", TRUE,  <<T(TT("NAME"), 2, <<5>>), T(RS("k"), 2, <<3>>)>>),
       D("k_stmt",     FALSE, <<T(TT("NAME"), 4, <<>>)>>),
       D("k_stmt",     TRUE,  <<>>),
       D("expr_stmt",  TRUE,  <<T(TT("NAME"), 6, <<>>)>>),
       D("expr_stmt",  TRUE,  <<>>) >>]

\* file_input: stmt*   stmt: k_stmt | expr_stmt   k_stmt: 'k' stmt
\* expr_stmt: NAME     the token after 'k' may itself be the soft keyword.
GrammarNested ==
    [reserved_syntax_strings |-> ReservedStrings,
     dfas |-> <<
       D("file_input", FALSE, <<T(RS("k"), 2, <<3>>), T(TT("NAME"), 2, <<5>>)>>),
       D("file_input", TRUE,  <<T(RS("k"), 2, <<3>>), T(TT("NAME"), 2, <<5>>)>>),
       D("k_stmt",     FALSE, <<T(RS("k"), 4, <<3>>), T(TT("NAME"), 4, <<5>>)>>),
       D("k_stmt",     TRUE,  <<>>),
       D("expr_stmt",  TRUE,  <<>>) >>]

\* file_input: (k_stmt | expr_stmt)*   k_stmt: 'k' atom 'h'   atom: NAME [NAME]
\* expr_stmt: primary [trailer]        primary: NAME   trailer: NAME ['h']
\* Both statements accept a NAME second; the third token decides. A NAME at
\* file_input pushes two frames, expr_stmt and primary.
GrammarDeep ==
    [reserved_syntax_strings |-> ReservedStrings,
     dfas |-> <<
       D("file_input", FALSE, <<T(RS("k"), 2, <<3>>), T(TT("NAME"), 2, <<6, 12>>)>>),
       D("file_input", TRUE,  <<T(RS("k"), 2, <<3>>), T(TT("NAME"), 2, <<6, 12>>)>>),
       D("k_stmt",     FALSE, <<T(TT("NAME"), 4, <<8>>)>>),
       D("k_stmt",     FALSE, <<T(RS("h"), 5, <<>>)>>),
       D("k_stmt",     TRUE,  <<>>),
       D("expr_stmt",  TRUE,  <<T(TT("NAME"), 7, <<10>>)>>),
       D("expr_stmt",  TRUE,  <<>>),
       D("atom",       TRUE,  <<T(TT("NAME"), 9, <<>>)>>),
       D("atom",       TRUE,  <<>>),
       D("trailer",    TRUE,  <<T(RS("h"), 11, <<>>)>>),
       D("trailer",    TRUE,  <<>>),
       D("primary",    TRUE,  <<>>) >>]

\* The grammar table sets parse is run with; nonterminal_to_dfas[start][0] is
\* state 1 of each.
Grammars == <<GrammarDecide, GrammarTie, GrammarNested, GrammarDeep>>

\* The rules the comment in _pop says always get a node.
AlwaysWrapped == {"expr_stmt", "file_input"}

\* ------------------------------------------------- _TokenGeneratorProxy

\* A proxy is [generator, counter, release_ranges]: how many tokens the wrapped
\* generator has yielded, self._counter, and self._release_ranges, each range
\* being [start, end, tokens].
NewProxy == [generator |-> 0, counter |-> 0, release_ranges |-> <<>>]

\* release(), up to the yield.
release_enter(p) ==
    [p EXCEPT !.release_ranges =
        Append(@, [start |-> p.counter, end |-> None, tokens |-> <<>>])]

\* release's finally block taking the end for the index of the last token eaten.
release_exit_inclusive(p) ==
    LET last == Len(p.release_ranges)
        total_eaten == Len(p.release_ranges[last].tokens)
    IN [p EXCEPT !.release_ranges[last].end = p.counter + total_eaten - 1]

\* release(), the finally block run when the with block is left.
release_exit(p) ==
    LET last == Len(p.release_ranges)
        total_eaten == Len(p.release_ranges[last].tokens)
    IN [p EXCEPT !.release_ranges[last].end = p.counter + total_eaten]

\* The while loop of eat advancing self._counter with every token it pulls, as
\* __next__ does.
RECURSIVE eat_pull_counting(_, _, _)
eat_pull_counting(src, p, point) ==
    LET last == Len(p.release_ranges)
        eaten_tokens == p.release_ranges[last].tokens
    IN IF point >= Len(eaten_tokens)
       THEN IF p.generator < Len(src)
            THEN eat_pull_counting(src,
                          [p EXCEPT !.generator = @ + 1,
                                    !.counter = @ + 1,
                                    !.release_ranges[last].tokens =
                                        Append(@, src[p.generator + 1])],
                          point)
            ELSE [proxy |-> p, raised |-> "StopIteration", token |-> Unbound]
       ELSE [proxy |-> p, raised |-> "", token |-> Last(eaten_tokens)]

\* The while loop of eat: pull from the generator into the last range until
\* `point` is cached; next() on the exhausted generator raises StopIteration.
RECURSIVE eat_pull(_, _, _)
eat_pull(src, p, point) ==
    LET last == Len(p.release_ranges)
        eaten_tokens == p.release_ranges[last].tokens
    IN IF point >= Len(eaten_tokens)
       THEN IF p.generator < Len(src)
            THEN eat_pull(src,
                          [p EXCEPT !.generator = @ + 1,
                                    !.release_ranges[last].tokens =
                                        Append(@, src[p.generator + 1])],
                          point)
            ELSE [proxy |-> p, raised |-> "StopIteration", token |-> Unbound]
       ELSE [proxy |-> p, raised |-> "", token |-> Last(eaten_tokens)]

\* eat(point)
eat(src, p, point) ==
    LET eaten_tokens == Last(p.release_ranges).tokens
    IN IF point < Len(eaten_tokens)
       THEN [proxy |-> p, raised |-> "", token |-> eaten_tokens[point + 1]]
       ELSE eat_pull(src, p, point)

\* can_advance(to): eat, with StopIteration turned into False.
can_advance(src, p, to) ==
    LET r == eat(src, p, to)
    IN [proxy |-> r.proxy, value |-> r.raised # "StopIteration"]

\* The for loop of __next__ from range i on: the token of the first range that
\* holds the counter, the failed assertion of a range whose end is None, or
\* "else" when the loop runs out.
RECURSIVE next_lookup(_, _)
next_lookup(p, i) ==
    IF i > Len(p.release_ranges)
    THEN [raised |-> "else", token |-> Unbound]
    ELSE LET r == p.release_ranges[i]
         IN IF r.end = None
            THEN [raised |-> "AssertionError", token |-> Unbound]
            ELSE IF r.start <= p.counter /\ p.counter < r.end
                 THEN IF p.counter - r.start < Len(r.tokens)
                      THEN [raised |-> "", token |-> r.tokens[p.counter - r.start + 1]]
                      ELSE [raised |-> "IndexError", token |-> Unbound]
                 ELSE next_lookup(p, i + 1)

\* __next__
next(src, p) ==
    LET found == next_lookup(p, 1)
    IN IF found.raised = "else"
       THEN IF p.generator < Len(src)
            THEN [proxy |-> [p EXCEPT !.generator = @ + 1, !.counter = @ + 1],
                  raised |-> "", token |-> src[p.generator + 1]]
            ELSE [proxy |-> p, raised |-> "StopIteration", token |-> Unbound]
       ELSE IF found.raised = ""
            THEN [proxy |-> [p EXCEPT !.counter = @ + 1],
                  raised |-> "", token |-> found.token]
            ELSE [proxy |-> p, raised |-> found.raised, token |-> Unbound]

\* ------------------------------------------------------------ tree values

\* Every tree value is [class, type, value, start_pos, prefix, children].
NoNode ==
    [class |-> "", type |-> "", value |-> "", start_pos |-> 0, prefix |-> "",
     children |-> <<>>]

\* tree.Leaf(value, start_pos, prefix)
Leaf(value, start_pos, prefix) ==
    [class |-> "Leaf", type |-> "", value |-> value, start_pos |-> start_pos,
     prefix |-> prefix, children |-> <<>>]

\* tree.ErrorLeaf(type_, value, start_pos, prefix)
ErrorLeaf(type_, value, start_pos, prefix) ==
    [class |-> "ErrorLeaf", type |-> type_, value |-> value,
     start_pos |-> start_pos, prefix |-> prefix, children |-> <<>>]

\* tree.Node(nonterminal, children)
Node(nonterminal, children) ==
    [class |-> "Node", type |-> nonterminal, value |-> "", start_pos |-> 0,
     prefix |-> "", children |-> children]

\* convert_node handing back the only child in place of a node, as _pop does.
convert_node_collapsing(nonterminal, children) ==
    IF Len(children) = 1 THEN children[1] ELSE Node(nonterminal, children)

\* convert_node: node_map is empty, so default_node builds the node. (The parent
\* back-references set on the children are not part of the value.)
convert_node(nonterminal, children) == Node(nonterminal, children)

\* convert_leaf with the text and the prefix handed to the leaf in each other's
\* place.
convert_leaf_swapped(type_, value, prefix, start_pos) == Leaf(prefix, start_pos, value)

\* convert_leaf: leaf_map is empty, so default_leaf(value, start_pos, prefix).
convert_leaf(type_, value, prefix, start_pos) == Leaf(value, start_pos, prefix)

\* InternalParseError(msg, type_, value, start_pos): the fields __init__ sets.
\* self.type is assigned the builtin `type`, not the argument type_.
InternalParseError(msg, type_, value, start_pos) ==
    [msg |-> msg, type_ |-> type_, type |-> "<class 'type'>", value |-> value,
     start_pos |-> start_pos]

NoException ==
    [msg |-> "", type_ |-> "", type |-> "", value |-> "", start_pos |-> 0]

\* self._error_recovery, False by default.
error_recovery_enabled == FALSE

\* error_recovery with the token's text and prefix unpacked in each other's
\* place.
error_recovery_misordered(tok) ==
    ErrorLeaf(tok.type, tok.prefix, tok.start_pos, tok.string)

\* error_recovery(token), fail-stop: the error leaf ParserSyntaxError carries.
error_recovery(tok) ==
    ErrorLeaf(tok.type, tok.string, tok.start_pos, tok.prefix)

\* ------------------------------------------------------------ the resolver

\* A plan is named by the DFA state and the entry of its transitions table
\* that holds it; NoPlan is Python's None.
NoPlan == [dfa |-> 0, idx |-> 0]

DFA(g, dfa) == Grammars[g].dfas[dfa]

Plan(g, plan) == DFA(g, plan.dfa).transitions[plan.idx]

\* _token_to_transition without the test of reserved_string.soft: every
\* reserved string keeps its token-type key as well.
token_to_transition_both(g, type_, value) ==
    LET reserved == Grammars[g].reserved_syntax_strings
    IN IF contains_syntax(type_) /\ value \in DOMAIN reserved
       THEN <<RS(value), TT(type_)>>
       ELSE <<TT(type_)>>

\* _token_to_transition(grammar, type_, value)
token_to_transition(g, type_, value) ==
    LET reserved == Grammars[g].reserved_syntax_strings
    IN IF contains_syntax(type_) /\ value \in DOMAIN reserved
       THEN IF reserved[value].soft
            THEN <<RS(value), TT(type_)>>
            ELSE <<RS(value)>>
       ELSE <<TT(type_)>>

\* transition_table.get(transition)
table_get(g, dfa, transition) ==
    LET table == DFA(g, dfa).transitions
        hits == {i \in 1..Len(table) : table[i].key = transition}
    IN IF hits = {} THEN NoPlan
       ELSE [dfa |-> dfa, idx |-> CHOOSE i \in hits : TRUE]

\* The first loop of get_possible_plan: the plans the table holds for the
\* candidate keys, in the order of possible_transitions.
matching_plans(g, possible_transitions, dfa) ==
    LET got == [i \in 1..Len(possible_transitions) |->
                    table_get(g, dfa, possible_transitions[i])]
    IN SelectSeq(got, LAMBDA possible_plan : possible_plan # NoPlan)

\* superior_plan with min() in the place of max(): the least branch length wins.
superior_plan_shortest(table, winner) ==
    LET possibilities == [i \in 1..Len(table) |-> Len(table[i].branch)]
        superior_branch_length ==
            CHOOSE n \in {possibilities[i] : i \in 1..Len(table)} :
                \A i \in 1..Len(table) : possibilities[i] >= n
        superior ==
            CHOOSE i \in 1..Len(table) :
                /\ possibilities[i] = superior_branch_length
                /\ \A j \in 1..(i - 1) : possibilities[j] # superior_branch_length
        count == Cardinality({i \in 1..Len(table) :
                                  possibilities[i] = superior_branch_length})
    IN IF count = 1 \/ winner THEN table[superior].origin ELSE NoPlan

\* superior_plan with max() keeping the last item of the greatest branch length.
superior_plan_last(table, winner) ==
    LET possibilities == [i \in 1..Len(table) |-> Len(table[i].branch)]
        superior_branch_length ==
            CHOOSE n \in {possibilities[i] : i \in 1..Len(table)} :
                \A i \in 1..Len(table) : possibilities[i] <= n
        superior ==
            CHOOSE i \in 1..Len(table) :
                /\ possibilities[i] = superior_branch_length
                /\ \A j \in (i + 1)..Len(table) : possibilities[j] # superior_branch_length
        count == Cardinality({i \in 1..Len(table) :
                                  possibilities[i] = superior_branch_length})
    IN IF count = 1 \/ winner THEN table[superior].origin ELSE NoPlan

\* superior_plan(table, winner): table is the dict possible_plan_table in
\* insertion order, each item [origin, branch]. max() returns the first item of
\* the greatest branch length.
superior_plan(table, winner) ==
    LET possibilities == [i \in 1..Len(table) |-> Len(table[i].branch)]
        superior_branch_length ==
            CHOOSE n \in {possibilities[i] : i \in 1..Len(table)} :
                \A i \in 1..Len(table) : possibilities[i] <= n
        superior ==
            CHOOSE i \in 1..Len(table) :
                /\ possibilities[i] = superior_branch_length
                /\ \A j \in 1..(i - 1) : possibilities[j] # superior_branch_length
        count == Cardinality({i \in 1..Len(table) :
                                  possibilities[i] = superior_branch_length})
    IN IF count = 1 \/ winner THEN table[superior].origin ELSE NoPlan

\* get_possible_plan from its entry to the first evaluation of the while
\* condition: the answer at once (no plan, or the only plan), or a new
\* activation with its scope opened on the proxy. `range` records which
\* release range this activation's with block appended.
get_possible_plan_enter(g, p, possible_transitions, dfa) ==
    LET possible_plans == matching_plans(g, possible_transitions, dfa)
    IN IF Len(possible_plans) = 0
       THEN [done |-> TRUE, value |-> NoPlan, proxy |-> p]
       ELSE IF Len(possible_plans) = 1
       THEN [done |-> TRUE, value |-> possible_plans[1], proxy |-> p]
       ELSE [done |-> FALSE, value |-> NoPlan, proxy |-> release_enter(p),
             call |-> [possible_plan_table |->
                           [i \in 1..Len(possible_plans) |->
                               [origin |-> possible_plans[i],
                                branch |-> <<possible_plans[i]>>]],
                       dead_plans |-> {},
                       counter |-> 0,
                       token |-> Unbound,
                       next_transitions |-> <<>>,
                       origin_i |-> 1,
                       push_i |-> 1,
                       at |-> "while",
                       range |-> Len(p.release_ranges) + 1]]

\* Lines 291-296 in the activation `call`, once the call at line 290 has
\* returned next_possible_plan for the candidate origin_i and push push_i.
resume(call, next_possible_plan) ==
    IF next_possible_plan # NoPlan
    THEN [call EXCEPT !.possible_plan_table[call.origin_i].branch =
                          Append(@, next_possible_plan),
                      !.origin_i = @ + 1,
                      !.push_i = 1]
    ELSE [call EXCEPT !.push_i = @ + 1]

\* ------------------------------------------------------------- the engine

\* StackNode(dfa)
StackNode(dfa) == [dfa |-> dfa, nodes |-> <<>>]

\* _pop that leaves the top frame on the stack.
pop_keeping(g, stack_) == [stack |-> stack_, raised |-> ""]

\* _pop: the top frame folded into the frame below. With a single frame the
\* stack is left empty and self.stack[-1] raises IndexError.
pop(g, stack_) ==
    LET tos == Last(stack_)
        rest == Front(stack_)
        new_node == IF Len(tos.nodes) = 1
                    THEN tos.nodes[1]
                    ELSE convert_node(DFA(g, tos.dfa).from_rule, tos.nodes)
    IN IF rest = <<>>
       THEN [stack |-> rest, raised |-> "IndexError"]
       ELSE [stack |-> [rest EXCEPT ![Len(rest)].nodes = Append(@, new_node)],
             raised |-> ""]

\* Lines 321-327 of _add_token: the plan applied and the leaf attached.
apply_plan(g, stack_, plan_, tok) ==
    LET moved == [stack_ EXCEPT ![Len(stack_)].dfa = Plan(g, plan_).next_dfa]
        pushes == Plan(g, plan_).dfa_pushes
        pushed == moved \o [i \in 1..Len(pushes) |-> StackNode(pushes[i])]
        leaf == convert_leaf(tok.type, tok.string, tok.prefix, tok.start_pos)
    IN [pushed EXCEPT ![Len(pushed)].nodes = Append(@, leaf)]

\* ------------------------------------------------------------------ state

VARIABLES
    grammar,      \* self._pgen_grammar: an index into Grammars
    tokens,       \* the token sequence the wrapped generator yields
    proxy,        \* self._tokens, the _TokenGeneratorProxy
    delivered,    \* the tokens __next__ has returned so far, in order
    stack,        \* self.stack
    token,        \* `token` of parse and of the running _add_token
    pc,           \* where the engine is: for, try, lookahead, plan, reduce, done
    plan_calls,   \* the running activations of get_possible_plan, innermost last
    returned,     \* what the last finished get_possible_plan call returned
    plan,         \* `plan` of _add_token
    outcome,      \* running, returned, or the exception that left parse
    result,       \* the tree parse returned
    error_leaf,   \* ParserSyntaxError.error_leaf
    exception,    \* the InternalParseError raised
    scopes        \* SpecProxy: the open with blocks of release(), innermost last

vars ==
    <<grammar, tokens, proxy, delivered, stack, token, pc, plan_calls, returned,
      plan, outcome, result, error_leaf, exception, scopes>>

\* parse, lines 179-181: the start frame pushed and the generator wrapped.
Init ==
    /\ grammar \in 1..Len(Grammars)
    /\ tokens \in TokenSequences
    /\ proxy = NewProxy
    /\ delivered = <<>>
    /\ stack = <<StackNode(1)>>
    /\ token = Unbound
    /\ pc = "for"
    /\ plan_calls = <<>>
    /\ returned = NoPlan
    /\ plan = NoPlan
    /\ outcome = "running"
    /\ result = NoNode
    /\ error_leaf = NoNode
    /\ exception = NoException
    /\ scopes = <<>>

\* An exception leaves parse.
Raise(name) ==
    /\ outcome' = name
    /\ pc' = "done"

\* parse, line 183: the for loop takes the next token from the proxy and
\* _add_token starts on it; StopIteration ends the loop.
ParseNext ==
    /\ pc = "for"
    /\ LET r == next(tokens, proxy)
       IN /\ proxy' = r.proxy
          /\ IF r.raised = ""
             THEN /\ token' = r.token
                  /\ delivered' = Append(delivered, r.token)
                  /\ pc' = "try"
                  /\ UNCHANGED outcome
             ELSE IF r.raised = "StopIteration"
             THEN /\ pc' = "reduce"
                  /\ UNCHANGED <<token, delivered, outcome>>
             ELSE /\ Raise(r.raised)
                  /\ UNCHANGED <<token, delivered>>
    /\ UNCHANGED <<grammar, tokens, stack, plan_calls, returned, plan, result,
                   error_leaf, exception, scopes>>

\* _add_token, line 308: get_possible_plan is called on the top frame's table.
\* It answers at once, or opens a scope and starts its lookahead.
GetPossiblePlan ==
    /\ pc = "try"
    /\ LET r == get_possible_plan_enter(
                    grammar, proxy,
                    token_to_transition(grammar, token.type, token.string),
                    Last(stack).dfa)
       IN IF r.done
          THEN /\ plan' = r.value
               /\ returned' = r.value
               /\ pc' = "plan"
               /\ UNCHANGED <<proxy, plan_calls>>
          ELSE /\ proxy' = r.proxy
               /\ plan_calls' = <<r.call>>
               /\ pc' = "lookahead"
               /\ UNCHANGED <<plan, returned>>
    /\ UNCHANGED <<grammar, tokens, delivered, stack, token, outcome, result,
                   error_leaf, exception, scopes>>

\* Whether the while condition of line 278 holds in the innermost activation.
Undecided == superior_plan(Last(plan_calls).possible_plan_table, FALSE) = NoPlan

\* Lines 278-283: no superior plan yet and the proxy can advance: the next
\* lookahead token is eaten and the loop over the candidates starts.
LookaheadAdvance ==
    /\ pc = "lookahead"
    /\ Last(plan_calls).at = "while"
    /\ Undecided
    /\ LET call == Last(plan_calls)
           adv == can_advance(tokens, proxy, call.counter)
           e == eat(tokens, adv.proxy, call.counter)
       IN /\ adv.value
          /\ proxy' = e.proxy
          /\ plan_calls' =
                [plan_calls EXCEPT ![Len(plan_calls)] =
                    [call EXCEPT
                        !.token = e.token,
                        !.next_transitions =
                            token_to_transition(grammar, e.token.type, e.token.string),
                        !.origin_i = 1,
                        !.push_i = 1,
                        !.at = "for"]]
    /\ UNCHANGED <<grammar, tokens, delivered, stack, token, pc, returned, plan,
                   outcome, result, error_leaf, exception, scopes>>

\* Lines 278-280 and 299: a superior plan exists, or the proxy cannot advance:
\* the with block is left (release's finally runs) and the activation returns
\* superior_plan(table, winner=True) to its caller.
LookaheadReturn ==
    /\ pc = "lookahead"
    /\ Last(plan_calls).at = "while"
    /\ LET call == Last(plan_calls)
           adv == can_advance(tokens, proxy, call.counter)
           after == IF Undecided THEN adv.proxy ELSE proxy
           value == superior_plan(call.possible_plan_table, TRUE)
       IN /\ Undecided => ~adv.value
          /\ proxy' = release_exit(after)
          /\ returned' = value
          /\ IF Len(plan_calls) = 1
             THEN /\ plan_calls' = <<>>
                  /\ plan' = value
                  /\ pc' = "plan"
             ELSE /\ plan_calls' =
                        Append(SubSeq(plan_calls, 1, Len(plan_calls) - 2),
                               resume(plan_calls[Len(plan_calls) - 1], value))
                  /\ UNCHANGED <<plan, pc>>
    /\ UNCHANGED <<grammar, tokens, delivered, stack, token, outcome, result,
                   error_leaf, exception, scopes>>

\* The candidate the for loop of line 284 is at, if any.
AtCandidate ==
    /\ pc = "lookahead"
    /\ Last(plan_calls).at = "for"
    /\ Last(plan_calls).origin_i <= Len(Last(plan_calls).possible_plan_table)

Candidate == Last(plan_calls).possible_plan_table[Last(plan_calls).origin_i]

\* dfa_pushes of the candidate's current plan, most deeply pushed first.
CandidatePushes == Reverse(Plan(grammar, Last(Candidate.branch)).dfa_pushes)

SetCall(call) ==
    /\ plan_calls' = [plan_calls EXCEPT ![Len(plan_calls)] = call]
    /\ UNCHANGED <<grammar, tokens, proxy, delivered, stack, token, pc, plan,
                   outcome, result, error_leaf, exception, scopes>>

\* Line 297: the for loop over the candidates is over, counter += 1.
SimulateNext ==
    /\ pc = "lookahead"
    /\ Last(plan_calls).at = "for"
    /\ Last(plan_calls).origin_i > Len(Last(plan_calls).possible_plan_table)
    /\ SetCall([Last(plan_calls) EXCEPT !.counter = @ + 1, !.at = "while"])
    /\ UNCHANGED returned

\* Lines 286-287: a dead candidate is skipped.
SimulateSkipDead ==
    /\ AtCandidate
    /\ Candidate.origin \in Last(plan_calls).dead_plans
    /\ SetCall([Last(plan_calls) EXCEPT !.origin_i = @ + 1, !.push_i = 1])
    /\ UNCHANGED returned

\* Lines 293-295: the pushes of the current plan ran out, the candidate dies.
SimulateDead ==
    /\ AtCandidate
    /\ Candidate.origin \notin Last(plan_calls).dead_plans
    /\ Last(plan_calls).push_i > Len(CandidatePushes)
    /\ SetCall([Last(plan_calls) EXCEPT
                    !.dead_plans = @ \cup {Candidate.origin},
                    !.origin_i = @ + 1,
                    !.push_i = 1])
    /\ UNCHANGED returned

\* Lines 289-296: get_possible_plan is called on the next push's table and
\* answers at once.
SimulatePush ==
    /\ AtCandidate
    /\ Candidate.origin \notin Last(plan_calls).dead_plans
    /\ Last(plan_calls).push_i <= Len(CandidatePushes)
    /\ LET call == Last(plan_calls)
           r == get_possible_plan_enter(grammar, proxy, call.next_transitions,
                                        CandidatePushes[call.push_i])
       IN /\ r.done
          /\ returned' = r.value
          /\ SetCall(resume(call, r.value))

\* Line 290: the call finds two plans itself and opens a scope inside the
\* caller's with block.
SimulateNested ==
    /\ AtCandidate
    /\ Candidate.origin \notin Last(plan_calls).dead_plans
    /\ Last(plan_calls).push_i <= Len(CandidatePushes)
    /\ LET call == Last(plan_calls)
           r == get_possible_plan_enter(grammar, proxy, call.next_transitions,
                                        CandidatePushes[call.push_i])
       IN /\ ~r.done
          /\ proxy' = r.proxy
          /\ plan_calls' = Append(plan_calls, r.call)
    /\ UNCHANGED <<grammar, tokens, delivered, stack, token, pc, returned, plan,
                   outcome, result, error_leaf, exception, scopes>>

\* Lines 309-314: no plan and the top frame is final: _pop, then retry.
AddTokenPop ==
    /\ pc = "plan"
    /\ plan = NoPlan
    /\ DFA(grammar, Last(stack).dfa).is_final
    /\ LET r == pop(grammar, stack)
       IN /\ stack' = r.stack
          /\ IF r.raised = ""
             THEN pc' = "try" /\ UNCHANGED outcome
             ELSE Raise(r.raised)
    /\ UNCHANGED <<grammar, tokens, proxy, delivered, token, plan_calls,
                   returned, plan, result, error_leaf, exception, scopes>>

\* Lines 315-317 and error_recovery: no plan and the top frame is not final.
ErrorRecovery ==
    /\ pc = "plan"
    /\ plan = NoPlan
    /\ ~DFA(grammar, Last(stack).dfa).is_final
    /\ IF error_recovery_enabled
       THEN /\ Raise("NotImplementedError")
            /\ UNCHANGED error_leaf
       ELSE /\ error_leaf' = error_recovery(token)
            /\ Raise("ParserSyntaxError")
    /\ UNCHANGED <<grammar, tokens, proxy, delivered, stack, token, plan_calls,
                   returned, plan, result, exception, scopes>>

\* Lines 321-327: the plan is applied and the token's leaf attached.
ApplyPlan ==
    /\ pc = "plan"
    /\ plan # NoPlan
    /\ stack' = apply_plan(grammar, stack, plan, token)
    /\ pc' = "for"
    /\ UNCHANGED <<grammar, tokens, proxy, delivered, token, plan_calls,
                   returned, plan, outcome, result, error_leaf, exception, scopes>>

\* parse, lines 187-194: the input is over and the top frame is not final.
\* With no token ever bound, reading `token` raises UnboundLocalError.
ParseIncomplete ==
    /\ pc = "reduce"
    /\ ~DFA(grammar, Last(stack).dfa).is_final
    /\ IF token = Unbound
       THEN /\ Raise("UnboundLocalError")
            /\ UNCHANGED exception
       ELSE /\ exception' = InternalParseError("incomplete input", token.type,
                                               token.string, token.start_pos)
            /\ Raise("InternalParseError")
    /\ UNCHANGED <<grammar, tokens, proxy, delivered, stack, token, plan_calls,
                   returned, plan, result, error_leaf, scopes>>

\* parse, lines 196-197: a final frame above the start frame is reduced.
ParsePop ==
    /\ pc = "reduce"
    /\ DFA(grammar, Last(stack).dfa).is_final
    /\ Len(stack) > 1
    /\ LET r == pop(grammar, stack)
       IN /\ stack' = r.stack
          /\ IF r.raised = ""
             THEN UNCHANGED <<pc, outcome>>
             ELSE Raise(r.raised)
    /\ UNCHANGED <<grammar, tokens, proxy, delivered, token, plan_calls,
                   returned, plan, result, error_leaf, exception, scopes>>

\* parse, lines 198-199: the start frame alone is left and final.
ParseReturn ==
    /\ pc = "reduce"
    /\ DFA(grammar, Last(stack).dfa).is_final
    /\ Len(stack) = 1
    /\ result' = convert_node(DFA(grammar, Last(stack).dfa).from_rule,
                              Last(stack).nodes)
    /\ outcome' = "returned"
    /\ pc' = "done"
    /\ UNCHANGED <<grammar, tokens, proxy, delivered, stack, token, plan_calls,
                   returned, plan, error_leaf, exception, scopes>>

Next ==
    \/ ParseNext
    \/ GetPossiblePlan
    \/ LookaheadAdvance
    \/ LookaheadReturn
    \/ SimulateNext
    \/ SimulateSkipDead
    \/ SimulateDead
    \/ SimulatePush
    \/ SimulateNested
    \/ AddTokenPop
    \/ ErrorRecovery
    \/ ApplyPlan
    \/ ParseIncomplete
    \/ ParsePop
    \/ ParseReturn

Spec == Init /\ [][Next]_vars

\* The same engine, run to its end: parse is one sequential call that keeps
\* executing its next step until it returns or raises.
SpecFair == Spec /\ WF_vars(Next)

\* ------------------------------------------------ the proxy on its own

\* What __next__ would answer in proxy state p: the exception or the token.
WouldNext(src, p) ==
    LET r == next(src, p) IN <<r.raised, r.token>>

\* The finally blocks of n open with blocks, run innermost first as an
\* exception leaves them.
RECURSIVE unwind(_, _)
unwind(p, n) == IF n = 0 THEN p ELSE unwind(release_exit(p), n - 1)

\* A _TokenGeneratorProxy over a source of ordinary names, nothing called yet.
InitProxy ==
    /\ grammar = 1
    /\ tokens \in {ts \in TokenSequences : \A i \in 1..Len(ts) : ts[i].string = "a"}
    /\ proxy = NewProxy
    /\ delivered = <<>>
    /\ stack = <<>>
    /\ token = Unbound
    /\ pc = "proxy"
    /\ plan_calls = <<>>
    /\ returned = NoPlan
    /\ plan = NoPlan
    /\ outcome = "running"
    /\ result = NoNode
    /\ error_leaf = NoNode
    /\ exception = NoException
    /\ scopes = <<>>

ProxyFrame ==
    UNCHANGED <<grammar, tokens, stack, pc, plan_calls, returned, plan,
                result, error_leaf, exception>>

\* `with proxy.release():` is entered. The scope remembers the range it
\* appended, the counter, what __next__ would have answered, and whether a
\* __next__ call or another with block happened inside it.
ProxyRelease ==
    /\ pc = "proxy"
    /\ outcome = "running"
    /\ Len(proxy.release_ranges) < MaxRanges
    /\ proxy' = release_enter(proxy)
    /\ scopes' =
          Append([i \in 1..Len(scopes) |-> [scopes[i] EXCEPT !.plain = FALSE]],
                 [range |-> Len(proxy.release_ranges) + 1,
                  counter |-> proxy.counter,
                  would_next |-> WouldNext(tokens, proxy),
                  plain |-> TRUE])
    /\ UNCHANGED <<delivered, outcome, token>>
    /\ ProxyFrame

\* can_advance(to) inside a with block.
ProxyCanAdvance ==
    /\ pc = "proxy"
    /\ outcome = "running"
    /\ scopes # <<>>
    /\ \E to \in 0..MaxPoint :
          proxy' = can_advance(tokens, proxy, to).proxy
    /\ UNCHANGED <<delivered, outcome, scopes, token>>
    /\ ProxyFrame

\* token = eat(point) inside a with block; StopIteration leaves every open
\* block.
ProxyEat ==
    /\ pc = "proxy"
    /\ outcome = "running"
    /\ scopes # <<>>
    /\ \E point \in 0..MaxPoint :
          LET r == eat(tokens, proxy, point)
          IN IF r.raised = ""
             THEN /\ proxy' = r.proxy
                  /\ token' = r.token
                  /\ UNCHANGED <<outcome, scopes>>
             ELSE /\ proxy' = unwind(r.proxy, Len(scopes))
                  /\ outcome' = r.raised
                  /\ scopes' = <<>>
                  /\ UNCHANGED token
    /\ UNCHANGED delivered
    /\ ProxyFrame

\* The innermost with block is left.
ProxyExit ==
    /\ pc = "proxy"
    /\ outcome = "running"
    /\ scopes # <<>>
    /\ proxy' = release_exit(proxy)
    /\ scopes' = Front(scopes)
    /\ UNCHANGED <<delivered, outcome, token>>
    /\ ProxyFrame

\* next(proxy); an exception leaves every open with block.
ProxyNext ==
    /\ pc = "proxy"
    /\ outcome = "running"
    /\ LET r == next(tokens, proxy)
       IN IF r.raised = ""
          THEN /\ proxy' = r.proxy
               /\ delivered' = Append(delivered, r.token)
               /\ scopes' = [i \in 1..Len(scopes) |-> [scopes[i] EXCEPT !.plain = FALSE]]
               /\ UNCHANGED outcome
          ELSE /\ proxy' = unwind(r.proxy, Len(scopes))
               /\ outcome' = r.raised
               /\ scopes' = <<>>
               /\ UNCHANGED delivered
    /\ UNCHANGED token
    /\ ProxyFrame

NextProxy ==
    \/ ProxyRelease
    \/ ProxyCanAdvance
    \/ ProxyEat
    \/ ProxyExit
    \/ ProxyNext

SpecProxy == InitProxy /\ [][NextProxy]_vars

\* ------------------------------------------------------------- the claims

\* Whether the top frame's cursor is a final state.
TopIsFinal == DFA(grammar, Last(stack).dfa).is_final

\* The leaves of a tree value, left to right.
RECURSIVE Leaves(_)
RECURSIVE LeavesOfAll(_)
Leaves(n) == IF n.class = "Node" THEN LeavesOfAll(n.children) ELSE <<n>>

LeavesOfAll(ns) == IF ns = <<>> THEN <<>> ELSE Leaves(Head(ns)) \o LeavesOfAll(Tail(ns))

\* The leaves held by the frames of a stack, bottom frame first.
RECURSIVE StackLeaves(_)
StackLeaves(st) ==
    IF st = <<>> THEN <<>> ELSE LeavesOfAll(Head(st).nodes) \o StackLeaves(Tail(st))

\* C1: whatever release, can_advance, eat, scope exit and __next__ calls were
\* made, the tokens __next__ has returned so far are the first tokens of the
\* source in source order: none dropped, duplicated or reordered.
C1_DeliveredInSourceOrder ==
    /\ Len(delivered) <= Len(tokens)
    /\ \A i \in 1..Len(delivered) : delivered[i] = tokens[i]

\* C2: when parse returns a tree, its leaves read left to right are the input
\* tokens one for one and in order: leaf i carries the text, position and
\* prefix of token i.
C2_LeavesAreTheTokens ==
    outcome = "returned" =>
        Leaves(result) =
            [i \in 1..Len(tokens) |->
                Leaf(tokens[i].string, tokens[i].start_pos, tokens[i].prefix)]

\* A parse that returned a tree after two disambiguations, the second one on
\* a token the first had not cached.
C2_Witness ==
    /\ outcome = "returned"
    /\ Len(proxy.release_ranges) >= 2
    /\ Len(proxy.release_ranges[1].tokens) >= 2
    /\ Len(Leaves(result)) >= 4

\* C3: while get_possible_plan activations are running, a step changes no
\* release range but the one the acting (innermost) activation opened itself:
\* an inner scope leaves the outer scope's record alone, the outer scope's
\* later peeks extend the outer scope's own cache, and an activation that
\* returns has fixed the end of its own range.
C3_InnerScopeLeavesOuterAlone ==
    [][pc = "lookahead" =>
          LET own == Last(plan_calls).range
          IN /\ \A i \in 1..Len(proxy.release_ranges) :
                    i # own => proxy'.release_ranges[i] = proxy.release_ranges[i]
             /\ Len(plan_calls') < Len(plan_calls) =>
                    proxy'.release_ranges[own].end # None]_vars

\* The token the innermost activation of get_possible_plan is resolving.
ResolvedToken ==
    IF Len(plan_calls) = 1 THEN token ELSE plan_calls[Len(plan_calls) - 1].token

\* The candidates of the innermost activation are tied and the input is over.
TieAtEnd ==
    /\ pc = "lookahead"
    /\ Last(plan_calls).at = "while"
    /\ Undecided
    /\ ~can_advance(tokens, proxy, Last(plan_calls).counter).value

\* The tied candidate whose key comes first in the state's transitions table.
EarliestInTable ==
    LET table == Last(plan_calls).possible_plan_table
        first == CHOOSE i \in 1..Len(table) :
                     \A j \in 1..Len(table) : table[i].origin.idx <= table[j].origin.idx
    IN table[first].origin

\* C4 as stated: candidates tied at the end of the input, the plan returned is
\* the one whose key comes first in the state's ordered transitions table.
C4_TieGoesToFirstTableKey ==
    [][TieAtEnd => returned' = EarliestInTable]_vars

\* C4 amended: candidates tied at the end of the input, the plan returned is
\* the one of the first key _token_to_transition lists for the token (the
\* reserved-string key, before the token-type key), whatever the table's order.
C4_TieGoesToFirstCandidateKey ==
    [][TieAtEnd =>
          returned' =
              table_get(grammar,
                        Last(plan_calls).possible_plan_table[1].origin.dfa,
                        token_to_transition(grammar, ResolvedToken.type,
                                            ResolvedToken.string)[1])]_vars

\* Two candidates tied at the end of the input after at least one lookahead
\* token, in a table that lists the token-type key before the reserved string.
C4_Witness ==
    /\ TieAtEnd
    /\ Last(plan_calls).counter >= 1
    /\ Len(Last(plan_calls).possible_plan_table) = 2
    /\ Last(plan_calls).possible_plan_table[1].origin.idx >
           Last(plan_calls).possible_plan_table[2].origin.idx

\* C5: when no transition is found for a token, the step that follows is a
\* reduction, ParserSyntaxError or InternalParseError: no other failure
\* leaves the engine.
C5_NoTransitionIsHandled ==
    [][(pc = "plan" /\ plan = NoPlan) =>
          outcome' \in {"running", "ParserSyntaxError", "InternalParseError"}]_vars

\* C6: the input is over (of any length, none included) and the top frame is
\* not final: parse raises InternalParseError("incomplete input") built from
\* the last token seen.
C6_IncompleteInputIsInternalError ==
    [][(pc = "reduce" /\ ~TopIsFinal) =>
          /\ outcome' = "InternalParseError"
          /\ exception'.msg = "incomplete input"
          /\ delivered # <<>>
          /\ exception'.type_ = Last(delivered).type
          /\ exception'.value = Last(delivered).string
          /\ exception'.start_pos = Last(delivered).start_pos]_vars

\* C7: a token without a transition on a top frame that is not final (the
\* final frames above it reduced): the next step raises ParserSyntaxError
\* whose error leaf is that token's type, text, position and prefix, the token
\* is in no frame, stack and proxy are as they were, and no step follows.
C7_SyntaxErrorAtTheToken ==
    [][/\ (pc = "plan" /\ plan = NoPlan /\ ~TopIsFinal) =>
              /\ outcome' = "ParserSyntaxError"
              /\ token = Last(delivered)
              /\ error_leaf' = ErrorLeaf(token.type, token.string,
                                         token.start_pos, token.prefix)
              /\ stack' = stack
              /\ proxy' = proxy
              /\ delivered' = delivered
              /\ \A i \in 1..Len(StackLeaves(stack')) :
                     StackLeaves(stack')[i].start_pos # token.start_pos
       /\ outcome # "ParserSyntaxError"]_vars

\* ParserSyntaxError raised on a token that first had a final frame reduced
\* under it, with tokens left in the source.
C7_Witness ==
    /\ outcome = "ParserSyntaxError"
    /\ error_leaf.start_pos = Len(delivered)
    /\ Last(stack).nodes # <<>>
    /\ Last(Last(stack).nodes).class = "Node"
    /\ proxy.generator < Len(tokens)

\* C8: a scope is opened, peeked into and left with no __next__ call (and no
\* other scope) inside it: the counter is what it was when the scope was
\* opened, and __next__ would answer what it would have answered then.
C8_AbandonedScopeChangesNothing ==
    [][(/\ pc = "proxy"
        /\ scopes # <<>>
        /\ scopes' = Front(scopes)
        /\ outcome' = "running"
        /\ Last(scopes).plain) =>
          /\ proxy'.counter = Last(scopes).counter
          /\ WouldNext(tokens, proxy') = Last(scopes).would_next]_vars

\* A scope that was left after its peeks pulled every token the source had
\* left, nothing consumed since.
C8_Witness ==
    /\ pc = "proxy"
    /\ outcome = "running"
    /\ scopes = <<>>
    /\ proxy.release_ranges # <<>>
    /\ Last(proxy.release_ranges).end # None
    /\ Last(proxy.release_ranges).start = proxy.counter
    /\ Len(Last(proxy.release_ranges).tokens) >= 2
    /\ proxy.generator = Len(tokens)
    /\ delivered # <<>>

\* C9: the lookahead pulls a token from the source only while two or more of
\* its candidates are alive.
C9_PullsOnlyWhileTwoAlive ==
    [][(pc = "lookahead" /\ proxy'.generator > proxy.generator) =>
          LET call == Last(plan_calls)
          IN Cardinality({i \in 1..Len(call.possible_plan_table) :
                 call.possible_plan_table[i].origin \notin call.dead_plans}) >= 2]_vars

\* C10: a reduction hands the parent frame the only child itself, unless the
\* rule is one of the always-wrapped ones; otherwise a node of the frame's rule
\* holding the children in order.
C10_PopWrapsTheDesignatedRules ==
    [][(Len(stack) >= 2 /\ Len(stack') = Len(stack) - 1) =>
          LET tos == Last(stack)
              rule == DFA(grammar, tos.dfa).from_rule
              new_node == IF Len(tos.nodes) = 1 /\ rule \notin AlwaysWrapped
                          THEN tos.nodes[1]
                          ELSE Node(rule, tos.nodes)
          IN Last(stack').nodes = Append(stack[Len(stack) - 1].nodes, new_node)]_vars

\* C11 as stated: on success parse returns the start rule's node with the
\* ordered children, or, the start frame ending with exactly one child, that
\* child itself with no node around it.
C11_SingleChildRootIsTheChild ==
    outcome = "returned" =>
        result = IF Len(Last(stack).nodes) = 1
                 THEN Last(stack).nodes[1]
                 ELSE Node(DFA(grammar, 1).from_rule, Last(stack).nodes)

\* C11 amended: on success parse returns a node of the start rule holding the
\* start frame's children in order, also when there is exactly one child.
C11_RootIsAlwaysTheStartRuleNode ==
    outcome = "returned" =>
        /\ result.class = "Node"
        /\ result.type = DFA(grammar, 1).from_rule
        /\ result.children = Last(stack).nodes
        /\ Len(stack) = 1

\* parse returned with the whole input reduced to one child of the start frame.
C11_Witness ==
    /\ outcome = "returned"
    /\ Len(Last(stack).nodes) = 1
    /\ Len(tokens) >= 2

\* C12: from the push of the start frame on, no step of the parse takes the
\* last frame off the stack: the stack holds at least one frame throughout.
C12_StackIsNeverEmpty ==
    [][Len(stack) >= 1 => Len(stack') >= 1]_vars

\* C13: an InternalParseError carries the offending token's type, text and
\* start position in its type, value and start_pos fields.
C13_InternalErrorCarriesTheToken ==
    outcome = "InternalParseError" =>
        /\ exception.type = token.type
        /\ exception.value = token.string
        /\ exception.start_pos = token.start_pos

\* C14: inside a scope opened at counter s (no other scope open), eat(n)
\* answers the source token at stream position s + n, also when that position
\* was cached by an earlier scope and has not been replayed yet.
C14_PeekReadsTheStreamPosition ==
    [][\A n \in 0..MaxPoint :
          (/\ pc = "proxy"
           /\ Len(scopes) = 1
           /\ eat(tokens, proxy, n).raised = ""
           /\ proxy' = eat(tokens, proxy, n).proxy
           /\ token' = eat(tokens, proxy, n).token) =>
              token' = tokens[Last(scopes).counter + n + 1]]_vars

\* The cursors (DFA states) of the frames of a stack, bottom frame first.
Cursors(st) == [i \in 1..Len(st) |-> st[i].dfa]

\* Lines 321-324 of _add_token on a stack of cursors: the top cursor moved to
\* the plan's next_dfa and the plan's dfa_pushes pushed.
push_plan(g, cursors, plan_) ==
    [cursors EXCEPT ![Len(cursors)] = Plan(g, plan_).next_dfa]
        \o Plan(g, plan_).dfa_pushes

\* The try loop of _add_token (lines 301-319) on a stack of cursors: a
\* transition on the top frame, else the top frame popped if its cursor is
\* final and the token retried, else no transition. The stacks the token can
\* leave (one for each plan found), none when it finds no transition.
RECURSIVE engine_step(_, _, _)
engine_step(g, cursors, transitions) ==
    IF cursors = <<>> THEN {}
    ELSE LET plans == matching_plans(g, transitions, Last(cursors))
         IN IF plans # <<>>
            THEN {push_plan(g, cursors, plans[i]) : i \in 1..Len(plans)}
            ELSE IF DFA(g, Last(cursors)).is_final
                 THEN engine_step(g, Front(cursors), transitions)
                 ELSE {}

\* engine_step over a sequence of tokens, from a set of stacks of cursors.
RECURSIVE engine_run(_, _, _)
engine_run(g, stacks, toks) ==
    IF toks = <<>> THEN stacks
    ELSE engine_run(g,
                    UNION {engine_step(g, cursors,
                                       token_to_transition(g, Head(toks).type,
                                                           Head(toks).string))
                               : cursors \in stacks},
                    Tail(toks))

\* The lookahead tokens the outermost activation has eaten, the current one
\* last, when its own range holds them.
LookaheadTokens ==
    LET call == Last(plan_calls)
        eaten == proxy.release_ranges[call.range].tokens
    IN IF Len(eaten) > call.counter THEN SubSeq(eaten, 1, call.counter + 1)
       ELSE <<>>

\* Whether the real engine, on a copy of the stack with the candidate applied
\* and the earlier lookahead tokens shifted, finds a transition for the current
\* lookahead token.
EngineFindsTransition ==
    engine_run(grammar, {push_plan(grammar, Cursors(stack), Candidate.origin)},
               LookaheadTokens) # {}

\* C15: for every candidate and lookahead token, the simulation keeps the
\* candidate alive on the token exactly when the real engine, on a copy of the
\* stack after that candidate and the earlier lookahead tokens, would find a
\* transition for it (transition on the top frame, else pop if final, else
\* fail).
C15_SimulationAgreesWithEngine ==
    [][(/\ AtCandidate
        /\ Len(plan_calls) = 1
        /\ Len(plan_calls') = 1
        /\ LookaheadTokens # <<>>
        /\ Last(LookaheadTokens) = Last(plan_calls).token
        /\ Candidate.origin \notin Last(plan_calls).dead_plans) =>
          LET i == Last(plan_calls).origin_i
              died == Candidate.origin \in Last(plan_calls').dead_plans
              matched == Len(Last(plan_calls').possible_plan_table[i].branch)
                             > Len(Candidate.branch)
          IN /\ died => ~EngineFindsTransition
             /\ matched => EngineFindsTransition]_vars

\* The candidates of the innermost activation that have not died.
AliveCandidates ==
    LET call == Last(plan_calls)
    IN {i \in 1..Len(call.possible_plan_table) :
            call.possible_plan_table[i].origin \notin call.dead_plans}

\* C16: at the head of the lookahead loop, exactly one candidate alive makes
\* the activation return that candidate at once; it returns otherwise only
\* when the source has run out; and what it returns is always a candidate
\* with the longest chain of matched lookahead tokens, so never a dead one
\* while another matched more.
C16_StopsAtTheUniqueSurvivor ==
    [][(pc = "lookahead" /\ Last(plan_calls).at = "while") =>
          LET call == Last(plan_calls)
              table == call.possible_plan_table
              returns == Len(plan_calls') < Len(plan_calls)
          IN /\ Cardinality(AliveCandidates) = 1 =>
                    /\ returns
                    /\ \A i \in AliveCandidates : returned' = table[i].origin
             /\ (returns /\ Cardinality(AliveCandidates) # 1) =>
                    ~can_advance(tokens, proxy, call.counter).value
             /\ returns =>
                    \E i \in 1..Len(table) :
                        /\ returned' = table[i].origin
                        /\ \A j \in 1..Len(table) :
                               Len(table[j].branch) <= Len(table[i].branch)]_vars

\* A disambiguation that stopped on its second lookahead token with tokens
\* left in the source, its plan about to be applied.
C16_Witness ==
    /\ pc = "plan"
    /\ plan # NoPlan
    /\ proxy.release_ranges # <<>>
    /\ Last(proxy.release_ranges).end # None
    /\ Last(proxy.release_ranges).start = proxy.counter
    /\ Len(Last(proxy.release_ranges).tokens) >= 2
    /\ proxy.generator < Len(tokens)

\* Whether the token's text is a reserved string flagged soft / not soft.
IsSoftKeyword(tok) ==
    /\ tok.string \in DOMAIN Grammars[grammar].reserved_syntax_strings
    /\ Grammars[grammar].reserved_syntax_strings[tok.string].soft

IsHardKeyword(tok) ==
    /\ tok.string \in DOMAIN Grammars[grammar].reserved_syntax_strings
    /\ ~Grammars[grammar].reserved_syntax_strings[tok.string].soft

\* The keys of a token are as C17 says: both for a soft keyword, the
\* reserved-string key alone for a hard one, the token-type key alone otherwise.
KeysFitTheToken(tok) ==
    LET keys == token_to_transition(grammar, tok.type, tok.string)
    IN /\ Len(keys) = 2 => IsSoftKeyword(tok)
       /\ IsSoftKeyword(tok) => keys = <<RS(tok.string), TT(tok.type)>>
       /\ IsHardKeyword(tok) => keys = <<RS(tok.string)>>
       /\ (~IsSoftKeyword(tok) /\ ~IsHardKeyword(tok)) => keys = <<TT(tok.type)>>

\* C17: a token has two keys only when it is a soft keyword; a call of
\* get_possible_plan opens a scope only for a soft keyword whose two keys are
\* both in the table it is given, and a call that opens no scope leaves the
\* proxy as it was (nothing pulled).
C17_ScopeOnlyForSoftKeyword ==
    [][(pc = "try" \/ AtCandidate) =>
          LET opened == Len(proxy'.release_ranges) > Len(proxy.release_ranges)
              tok == ResolvedToken'
              dfa == Last(plan_calls').possible_plan_table[1].origin.dfa
          IN /\ KeysFitTheToken(IF pc = "try" THEN token ELSE Last(plan_calls).token)
             /\ opened =>
                    /\ Len(plan_calls') = Len(plan_calls) + 1
                    /\ IsSoftKeyword(tok)
                    /\ table_get(grammar, dfa, RS(tok.string)) # NoPlan
                    /\ table_get(grammar, dfa, TT(tok.type)) # NoPlan
             /\ ~opened => proxy' = proxy]_vars

\* The soft keyword has opened the first scope of a parse that took a hard
\* keyword and ordinary names before it with no scope.
C17_Witness ==
    /\ pc = "lookahead"
    /\ Len(plan_calls) = 1
    /\ token.string = "k"
    /\ Len(proxy.release_ranges) = 1
    /\ \E i \in 1..Len(delivered) : delivered[i].string = "h"
    /\ \E i \in 1..Len(delivered) : delivered[i].string = "a"

\* C18: while get_possible_plan runs (from its call in _add_token to its
\* return, lookahead and nested calls included) the parse stack and the
\* proxy's consumption counter stay as they were, and no token is delivered.
C18_ResolverLeavesStackAndCounter ==
    [][(pc = "try" \/ pc = "lookahead") =>
          /\ stack' = stack
          /\ proxy'.counter = proxy.counter
          /\ delivered' = delivered]_vars

\* A disambiguation with a nested call has returned its plan to _add_token,
\* which is about to apply it to a stack that already holds nodes.
C18_Witness ==
    /\ pc = "plan"
    /\ plan # NoPlan
    /\ Len(proxy.release_ranges) >= 2
    /\ proxy.release_ranges[Len(proxy.release_ranges) - 1].start = proxy.counter
    /\ proxy.release_ranges[Len(proxy.release_ranges) - 1].end = None
    /\ Last(proxy.release_ranges).start = proxy.counter
    /\ StackLeaves(stack) # <<>>

\* C19: whenever the engine is about to call __next__, every release range
\* has its end set, and the assertion of __next__ never fails.
C19_EveryRangeIsClosedAtNext ==
    /\ pc = "for" =>
           \A i \in 1..Len(proxy.release_ranges) :
               proxy.release_ranges[i].end # None
    /\ outcome # "AssertionError"

\* C20: every parse comes to an end: the token loop, the retry loop of
\* _add_token, the lookahead loop and the final reduction loop all finish, and
\* parse returns or raises.
C20_ParseTerminates == <>(pc = "done")

\* parse has returned after a lookahead loop of two rounds, a frame reduced by
\* _add_token's retry loop and the final reductions.
C20_Witness ==
    /\ pc = "done"
    /\ outcome = "returned"
    /\ proxy.release_ranges # <<>>
    /\ Len(proxy.release_ranges[1].tokens) >= 2
    /\ Len(result.children) >= 2
    /\ result.children[1].class = "Node"

====
